---- MODULE Spec2Model ----
(***************************************************************************)
(* Model of src/main.py: an electronic circuit kept as an undirected graph *)
(* (CircuitoElectronico), the Hamiltonian path / cycle search and the      *)
(* energy-efficiency evaluator (AnalizadorHamiltoniano), and the handlers  *)
(* of the application (AplicacionHamiltonianoCircuitos) through which the  *)
(* circuit is built and analysed.                                          *)
(*                                                                         *)
(* Python values are modelled as follows.  A list is a sequence.  A value  *)
(* that may be None, a list or a raised exception is a record              *)
(* [tipo, valor].  A float is the exact rational [num, den]; the weights   *)
(* that are entered are integers, so every sum is exact.  The networkx     *)
(* graph is its node list (insertion order) and, per node, the list of its *)
(* neighbours (insertion order of the adjacency dict).                     *)
(***************************************************************************)
EXTENDS Integers, Sequences, FiniteSets, TLC

VARIABLES circuito_actual, analizador, resultado

vars == <<circuito_actual, analizador, resultado>>

(***************************************************************************)
(* Bounds of the model.                                                    *)
(***************************************************************************)
\* largest weight typed into the resistance entry (the smallest is -1)
MaxPeso == 2
\* longest path handed directly to calcular_eficiencia_energetica
MaxCamino == 3
\* most connections entries a circuit built from scratch may hold in SpecBusqueda
MaxConexiones == 5

(***************************************************************************)
(* Python values.                                                          *)
(***************************************************************************)
None == [tipo |-> "None", valor |-> <<>>]
Lista(s) == [tipo |-> "list", valor |-> s]
Raise(e) == [tipo |-> "raise", valor |-> <<e>>]

\* truth value of a list-or-None in "if x:" (None and [] are false)
Truthy(x) == x.tipo = "list" /\ x.valor # <<>>

SinNumero == [tipo |-> "None", num |-> 0, den |-> 1]
Numero(n, d) == [tipo |-> "float", num |-> n, den |-> d]
RaiseNumero(e) == [tipo |-> e, num |-> 0, den |-> 1]

\* a / b on floats: ZeroDivisionError when b = 0
Dividir(a, b) == IF b = 0 THEN RaiseNumero("ZeroDivisionError") ELSE Numero(a, b)

\* q > a / b for a float q and a literal a / b with b > 0
MayorQue(q, a, b) ==
    IF q.den > 0 THEN q.num * b > a * q.den ELSE q.num * b < a * q.den

Rango(s) == {s[i] : i \in 1..Len(s)}

(***************************************************************************)
(* networkx.Graph as CircuitoElectronico uses it.                          *)
(***************************************************************************)
\* nx.Graph(): no nodes
Graph == [nodos |-> <<>>, adj |-> <<>>]

\* Graph.add_node(n): a new node goes last, with no neighbours; a known one stays
add_node(g, n) ==
    IF n \in DOMAIN g.adj THEN g
    ELSE [nodos |-> Append(g.nodos, n), adj |-> g.adj @@ (n :> <<>>)]

\* poner_vecino putting a new neighbour first
poner_vecino_primero(g, u, v) ==
    IF v \in Rango(g.adj[u]) THEN g
    ELSE [g EXCEPT !.adj[u] = <<v>> \o @]

\* adj[u][v] = datadict: v goes last among u's neighbours unless already there
poner_vecino(g, u, v) ==
    IF v \in Rango(g.adj[u]) THEN g
    ELSE [g EXCEPT !.adj[u] = Append(@, v)]

\* Graph.add_edge(u, v): adds the missing end points, then both directions
add_edge(g, u, v) ==
    poner_vecino(poner_vecino(add_node(add_node(g, u), v), u, v), v, u)

\* Graph.has_edge(u, v)
has_edge(g, u, v) == u \in DOMAIN g.adj /\ v \in Rango(g.adj[u])

\* list(Graph.neighbors(n))
neighbors(g, n) == g.adj[n]

(***************************************************************************)
(* class CircuitoElectronico                                               *)
(***************************************************************************)
\* __init__: empty graph, no components, no connections
CircuitoElectronico(nombre) ==
    [nombre |-> nombre, grafo |-> Graph, componentes |-> <<>>, conexiones |-> <<>>]

\* dict[k] = v
Asignar(d, k, v) == [x \in DOMAIN d \cup {k} |-> IF x = k THEN v ELSE d[x]]

\* CircuitoElectronico.agregar_componente (called without posicion)
agregar_componente(c, id_componente, tipo) ==
    [c EXCEPT !.grafo = add_node(@, id_componente),
              !.componentes = Asignar(@, id_componente, tipo)]

\* agregar_conexion that adds the edge and stores no weight for it
agregar_conexion_sin_peso(c, comp1, comp2, resistencia) ==
    [c EXCEPT !.grafo = add_edge(@, comp1, comp2)]

\* CircuitoElectronico.agregar_conexion: the key is the ordered pair
agregar_conexion(c, comp1, comp2, resistencia) ==
    [c EXCEPT !.grafo = add_edge(@, comp1, comp2),
              !.conexiones = Asignar(@, <<comp1, comp2>>, resistencia)]

(***************************************************************************)
(* class AnalizadorHamiltoniano.  The circuit c is the analyser's        *)
(* self.circuito: a CircuitoElectronico, or None for an analyser that was  *)
(* constructed over an object without a graph.                             *)
(***************************************************************************)
RECURSIVE backtrack(_, _, _)
RECURSIVE recorrer_vecinos(_, _, _, _)
RECURSIVE probar_inicios(_, _)

\* recorrer_vecinos taking the neighbours of the last node from the most
\* recently connected to the first connected
recorrer_vecinos_inverso(c, camino, visitados, i) ==
    LET directo == neighbors(c.grafo, camino[Len(camino)])
        vecinos == [k \in 1..Len(directo) |-> directo[Len(directo) + 1 - k]]
    IN  IF i > Len(vecinos) THEN None
        ELSE IF vecinos[i] \notin visitados
             THEN LET res == backtrack(c, Append(camino, vecinos[i]),
                                       visitados \cup {vecinos[i]})
                  IN  IF Truthy(res) THEN res
                      ELSE recorrer_vecinos(c, camino, visitados, i + 1)
             ELSE recorrer_vecinos(c, camino, visitados, i + 1)

\* the for loop of backtrack, from the i-th neighbour of the last node on
recorrer_vecinos(c, camino, visitados, i) ==
    LET vecinos == neighbors(c.grafo, camino[Len(camino)])
    IN  IF i > Len(vecinos) THEN None
        ELSE IF vecinos[i] \notin visitados
             THEN LET res == backtrack(c, Append(camino, vecinos[i]),
                                       visitados \cup {vecinos[i]})
                  IN  IF Truthy(res) THEN res
                      ELSE recorrer_vecinos(c, camino, visitados, i + 1)
             ELSE recorrer_vecinos(c, camino, visitados, i + 1)

\* backtrack that takes a path for complete one node early
backtrack_uno_menos(c, camino, visitados) ==
    IF Len(camino) = Len(c.grafo.nodos) - 1 THEN Lista(camino)
    ELSE recorrer_vecinos(c, camino, visitados, 1)

\* backtrack(camino, visitados) of encontrar_camino_hamiltoniano
backtrack(c, camino, visitados) ==
    IF Len(camino) = Len(c.grafo.nodos) THEN Lista(camino)
    ELSE recorrer_vecinos(c, camino, visitados, 1)

\* probar_inicios that returns what the first start node gives
probar_inicios_solo_primero(c, i) ==
    backtrack(c, <<c.grafo.nodos[i]>>, {c.grafo.nodos[i]})

\* the loop over the start nodes, from the i-th node on
probar_inicios(c, i) ==
    IF i > Len(c.grafo.nodos) THEN None
    ELSE LET camino == backtrack(c, <<c.grafo.nodos[i]>>, {c.grafo.nodos[i]})
         IN  IF Truthy(camino) THEN camino ELSE probar_inicios(c, i + 1)

\* AnalizadorHamiltoniano.encontrar_camino_hamiltoniano
encontrar_camino_hamiltoniano(c) ==
    IF c = None THEN Raise("AttributeError")
    ELSE IF Len(c.grafo.nodos) < 2 THEN Lista(c.grafo.nodos)
    ELSE probar_inicios(c, 1)

\* es_hamiltoniano returning the truth value of the path ("return bool(camino)")
es_hamiltoniano_bool(c) ==
    LET camino == encontrar_camino_hamiltoniano(c)
    IN  IF camino.tipo = "raise" THEN FALSE ELSE Truthy(camino)

\* AnalizadorHamiltoniano.es_hamiltoniano: TRUE / FALSE
es_hamiltoniano(c) ==
    LET camino == encontrar_camino_hamiltoniano(c)
    IN  IF camino.tipo = "raise" THEN FALSE ELSE camino # None

\* encontrar_ciclo_hamiltoniano that closes the path without looking for the
\* closing connection
encontrar_ciclo_sin_verificar(c) ==
    LET camino == encontrar_camino_hamiltoniano(c)
    IN  IF camino.tipo = "raise" THEN camino
        ELSE IF ~Truthy(camino) THEN None
        ELSE Lista(Append(camino.valor, camino.valor[1]))

\* AnalizadorHamiltoniano.encontrar_ciclo_hamiltoniano
encontrar_ciclo_hamiltoniano(c) ==
    LET camino == encontrar_camino_hamiltoniano(c)
    IN  IF camino.tipo = "raise" THEN camino
        ELSE IF ~Truthy(camino) THEN None
        ELSE IF has_edge(c.grafo, camino.valor[Len(camino.valor)], camino.valor[1])
             THEN Lista(Append(camino.valor, camino.valor[1]))
        ELSE None

\* resistencia_de without the lookup of the pair typed the other way round
resistencia_de_sin_inverso(c, a, b) ==
    IF <<a, b>> \in DOMAIN c.conexiones THEN c.conexiones[<<a, b>>] ELSE 1

\* the weight the evaluator's loop adds for the pair (a, b)
resistencia_de(c, a, b) ==
    IF <<a, b>> \in DOMAIN c.conexiones THEN c.conexiones[<<a, b>>]
    ELSE IF <<b, a>> \in DOMAIN c.conexiones THEN c.conexiones[<<b, a>>]
    ELSE 1

RECURSIVE resistencia_total(_, _, _)

\* the loop "for i in range(len(camino) - 1)", from index i (1-based) on
resistencia_total(c, camino, i) ==
    IF i > Len(camino) - 1 THEN 0
    ELSE resistencia_de(c, camino[i], camino[i + 1]) + resistencia_total(c, camino, i + 1)

\* AnalizadorHamiltoniano.calcular_eficiencia_energetica
calcular_eficiencia_energetica(c, camino) ==
    IF camino = <<>> \/ Len(camino) < 2 THEN Numero(0, 1)
    ELSE Dividir(1, 1 + resistencia_total(c, camino, 1))

(***************************************************************************)
(* What the user types and selects.                                        *)
(***************************************************************************)
\* str.strip() on the texts the id entries are given in this model
strip(t) == CASE t = " X " -> "X" [] t = "  " -> "" [] OTHER -> t

\* the text of the resistance entry: a decimal numeral or something else
Numeral(n) == [numeral |-> TRUE, valor |-> n]
NoNumeral == [numeral |-> FALSE, valor |-> 0]

\* float(text): the number, or ValueError
float(t) == IF t.numeral THEN Numero(t.valor, 1) ELSE RaiseNumero("ValueError")

(***************************************************************************)
(* class AplicacionHamiltonianoCircuitos: what each handler shows last.    *)
(***************************************************************************)
SinResultado ==
    [op |-> "", mensaje |-> "", camino |-> None, eficiencia |-> SinNumero,
     total |-> 0, nivel |-> "", es |-> FALSE]

MsgEspecificarComponente == "Debe especificar ID y tipo del componente"
MsgYaExiste == "El componente ya existe"
MsgComponenteAgregado == "Componente agregado exitosamente"
MsgResistenciaInvalida == "La resistencia debe ser un numero valido"
MsgEspecificarAmbos == "Debe especificar ambos componentes"
MsgDebenExistir == "Ambos componentes deben existir en el circuito"
MsgConsigoMismo == "No se puede conectar un componente consigo mismo"
MsgConexionAgregada == "Conexion agregada"
MsgAlMenosDos == "El circuito debe tener al menos 2 componentes"
MsgAlMenosTres == "El circuito debe tener al menos 3 componentes para un ciclo"
MsgCaminoEncontrado == "CAMINO HAMILTONIANO ENCONTRADO"
MsgNoExisteCamino == "NO EXISTE CAMINO HAMILTONIANO"
MsgCicloEncontrado == "CICLO HAMILTONIANO ENCONTRADO"
MsgNoExisteCiclo == "NO EXISTE CICLO HAMILTONIANO"
MsgPrimeroCamino == "Primero debe encontrar un camino hamiltoniano"
MsgAnalisisEficiencia == "ANALISIS DE EFICIENCIA ENERGETICA"
MsgEjemploCargado == "Circuito de ejemplo cargado exitosamente"

\* what a handler that edits the circuit leaves: the circuit and the message
Efecto(c, mensaje) == [circuito |-> c, mensaje |-> mensaje]

\* App_agregar_componente without the check for an id that already exists
App_agregar_componente_sin_duplicado(c, texto_id, tipo) ==
    LET id_comp == strip(texto_id)
    IN  IF id_comp = "" \/ tipo = ""
        THEN Efecto(c, MsgEspecificarComponente)
        ELSE Efecto(agregar_componente(c, id_comp, tipo), MsgComponenteAgregado)

\* AplicacionHamiltonianoCircuitos.agregar_componente on the circuit c with the
\* entry text texto_id and the combo box text tipo
App_agregar_componente(c, texto_id, tipo) ==
    LET id_comp == strip(texto_id)
    IN  IF id_comp = "" \/ tipo = ""
        THEN Efecto(c, MsgEspecificarComponente)
        ELSE IF id_comp \in DOMAIN c.componentes
        THEN Efecto(c, MsgYaExiste)
        ELSE Efecto(agregar_componente(c, id_comp, tipo), MsgComponenteAgregado)

\* the button "Agregar Componente"
AgregarComponente(texto_id, tipo) ==
    LET e == App_agregar_componente(circuito_actual, texto_id, tipo)
    IN  /\ circuito_actual' = e.circuito
        /\ resultado' = [SinResultado EXCEPT !.op = "agregar_componente",
                                             !.mensaje = e.mensaje]
        /\ UNCHANGED analizador

\* App_agregar_conexion without the check for a component connected to itself
App_agregar_conexion_sin_consigo_mismo(c, texto1, texto2, texto_resistencia) ==
    LET comp1 == strip(texto1)
        comp2 == strip(texto2)
        resistencia == float(texto_resistencia)
    IN  IF resistencia.tipo = "ValueError"
        THEN Efecto(c, MsgResistenciaInvalida)
        ELSE IF comp1 = "" \/ comp2 = ""
        THEN Efecto(c, MsgEspecificarAmbos)
        ELSE IF comp1 \notin DOMAIN c.componentes \/ comp2 \notin DOMAIN c.componentes
        THEN Efecto(c, MsgDebenExistir)
        ELSE Efecto(agregar_conexion(c, comp1, comp2, resistencia.num),
                    MsgConexionAgregada)

\* AplicacionHamiltonianoCircuitos.agregar_conexion on the circuit c with the
\* texts of the three entries
App_agregar_conexion(c, texto1, texto2, texto_resistencia) ==
    LET comp1 == strip(texto1)
        comp2 == strip(texto2)
        resistencia == float(texto_resistencia)
    IN  IF resistencia.tipo = "ValueError"
        THEN Efecto(c, MsgResistenciaInvalida)
        ELSE IF comp1 = "" \/ comp2 = ""
        THEN Efecto(c, MsgEspecificarAmbos)
        ELSE IF comp1 \notin DOMAIN c.componentes \/ comp2 \notin DOMAIN c.componentes
        THEN Efecto(c, MsgDebenExistir)
        ELSE IF comp1 = comp2
        THEN Efecto(c, MsgConsigoMismo)
        ELSE Efecto(agregar_conexion(c, comp1, comp2, resistencia.num),
                    MsgConexionAgregada)

\* the button "Agregar Conexion"
AgregarConexion(texto1, texto2, texto_resistencia) ==
    LET e == App_agregar_conexion(circuito_actual, texto1, texto2, texto_resistencia)
    IN  /\ circuito_actual' = e.circuito
        /\ resultado' = [SinResultado EXCEPT !.op = "agregar_conexion",
                                             !.mensaje = e.mensaje]
        /\ UNCHANGED analizador

\* AplicacionHamiltonianoCircuitos.analizar_hamiltoniano
analizar_hamiltoniano ==
    LET r == [SinResultado EXCEPT !.op = "analizar_hamiltoniano"]
        camino == encontrar_camino_hamiltoniano(circuito_actual)
    IN  /\ UNCHANGED circuito_actual
        /\ IF Len(circuito_actual.grafo.nodos) < 2
           THEN /\ resultado' = [r EXCEPT !.mensaje = MsgAlMenosDos]
                /\ UNCHANGED analizador
           ELSE /\ analizador' = "AnalizadorHamiltoniano"
                /\ IF Truthy(camino)
                   THEN resultado' =
                            [r EXCEPT !.mensaje = MsgCaminoEncontrado,
                                      !.camino = camino,
                                      !.eficiencia = calcular_eficiencia_energetica(
                                                         circuito_actual, camino.valor)]
                   ELSE resultado' = [r EXCEPT !.mensaje = MsgNoExisteCamino,
                                               !.camino = camino]

\* AplicacionHamiltonianoCircuitos.analizar_ciclo_hamiltoniano
analizar_ciclo_hamiltoniano ==
    LET r == [SinResultado EXCEPT !.op = "analizar_ciclo_hamiltoniano"]
        ciclo == encontrar_ciclo_hamiltoniano(circuito_actual)
    IN  /\ UNCHANGED circuito_actual
        /\ IF Len(circuito_actual.grafo.nodos) < 3
           THEN /\ resultado' = [r EXCEPT !.mensaje = MsgAlMenosTres]
                /\ UNCHANGED analizador
           ELSE /\ analizador' = "AnalizadorHamiltoniano"
                /\ IF Truthy(ciclo)
                   THEN resultado' =
                            [r EXCEPT !.mensaje = MsgCicloEncontrado,
                                      !.camino = ciclo,
                                      !.eficiencia = calcular_eficiencia_energetica(
                                                         circuito_actual, ciclo.valor)]
                   ELSE resultado' = [r EXCEPT !.mensaje = MsgNoExisteCiclo,
                                               !.camino = ciclo]

\* the tier shown for an efficiency
nivel_de(eficiencia) ==
    IF MayorQue(eficiencia, 7, 10) THEN "ALTA"
    ELSE IF MayorQue(eficiencia, 4, 10) THEN "MEDIA"
    ELSE "BAJA"

\* AplicacionHamiltonianoCircuitos.calcular_eficiencia
calcular_eficiencia ==
    LET r == [SinResultado EXCEPT !.op = "calcular_eficiencia"]
        camino == encontrar_camino_hamiltoniano(circuito_actual)
        eficiencia == calcular_eficiencia_energetica(circuito_actual, camino.valor)
    IN  /\ UNCHANGED circuito_actual
        /\ analizador' = "AnalizadorHamiltoniano"
        /\ IF ~Truthy(camino)
           THEN resultado' = [r EXCEPT !.mensaje = MsgPrimeroCamino, !.camino = camino]
           ELSE IF eficiencia.tipo # "float"
           THEN resultado' = [r EXCEPT !.camino = camino, !.eficiencia = eficiencia]
           ELSE resultado' =
                    [r EXCEPT !.mensaje = MsgAnalisisEficiencia,
                              !.camino = camino,
                              !.eficiencia = eficiencia,
                              !.total = resistencia_total(circuito_actual, camino.valor, 1),
                              !.nivel = nivel_de(eficiencia)]

\* AplicacionHamiltonianoCircuitos.nuevo_circuito
nuevo_circuito ==
    /\ circuito_actual' = CircuitoElectronico("Nuevo Circuito")
    /\ analizador' = "None"
    /\ resultado' = [SinResultado EXCEPT !.op = "nuevo_circuito"]

componentes_ejemplo ==
    << <<"R1", "Resistor">>, <<"R2", "Resistor">>, <<"C1", "Capacitor">>,
       <<"L1", "Inductor">>, <<"T1", "Transistor">>, <<"VCC", "Fuente">> >>

conexiones_ejemplo ==
    << <<"VCC", "R1", 10>>, <<"R1", "C1", 5>>, <<"C1", "L1", 3>>,
       <<"L1", "T1", 8>>, <<"T1", "R2", 6>>, <<"R2", "VCC", 4>> >>

RECURSIVE agregar_componentes(_, _, _)
\* "for id_comp, tipo in componentes_ejemplo", from the i-th on
agregar_componentes(c, lista, i) ==
    IF i > Len(lista) THEN c
    ELSE agregar_componentes(agregar_componente(c, lista[i][1], lista[i][2]), lista, i + 1)

RECURSIVE agregar_conexiones(_, _, _)
\* "for comp1, comp2, resistencia in conexiones_ejemplo", from the i-th on
agregar_conexiones(c, lista, i) ==
    IF i > Len(lista) THEN c
    ELSE agregar_conexiones(agregar_conexion(c, lista[i][1], lista[i][2], lista[i][3]),
                            lista, i + 1)

\* the circuit crear_circuito_ejemplo builds
circuito_ejemplo ==
    agregar_conexiones(
        agregar_componentes(CircuitoElectronico("Nuevo Circuito"), componentes_ejemplo, 1),
        conexiones_ejemplo, 1)

\* AplicacionHamiltonianoCircuitos.crear_circuito_ejemplo
crear_circuito_ejemplo ==
    /\ circuito_actual' = circuito_ejemplo
    /\ analizador' = "None"
    /\ resultado' = [SinResultado EXCEPT !.op = "crear_circuito_ejemplo",
                                         !.mensaje = MsgEjemploCargado]

(***************************************************************************)
(* Direct calls of the analyser's methods that no handler makes.           *)
(***************************************************************************)
\* AnalizadorHamiltoniano(c).es_hamiltoniano()
Llamar_es_hamiltoniano(c) ==
    /\ resultado' = [SinResultado EXCEPT !.op = "es_hamiltoniano",
                                         !.camino = encontrar_camino_hamiltoniano(c),
                                         !.es = es_hamiltoniano(c)]
    /\ UNCHANGED <<circuito_actual, analizador>>

\* AnalizadorHamiltoniano(circuito_actual).calcular_eficiencia_energetica(camino)
Llamar_calcular_eficiencia_energetica(camino) ==
    /\ resultado' = [SinResultado EXCEPT
                         !.op = "calcular_eficiencia_energetica",
                         !.camino = Lista(camino),
                         !.eficiencia = calcular_eficiencia_energetica(circuito_actual,
                                                                       camino)]
    /\ UNCHANGED <<circuito_actual, analizador>>

(***************************************************************************)
(* The application: it starts with the example circuit loaded.             *)
(***************************************************************************)
Init ==
    /\ circuito_actual = circuito_ejemplo
    /\ analizador = "None"
    /\ resultado = [SinResultado EXCEPT !.op = "crear_circuito_ejemplo",
                                        !.mensaje = MsgEjemploCargado]

TextosId == {"R1", " X ", "  "}
Tipos == {"Resistor", "IC", ""}
TextosResistencia == {NoNumeral} \cup {Numeral(n) : n \in (0 - 1)..MaxPeso}
IdsCamino == {"R1", "X", "VCC"}
Caminos == UNION {[1..n -> IdsCamino] : n \in 0..MaxCamino}

Next ==
    \/ \E t \in TextosId, tipo \in Tipos : AgregarComponente(t, tipo)
    \/ \E t1 \in TextosId, t2 \in TextosId, tr \in TextosResistencia :
           AgregarConexion(t1, t2, tr)
    \/ analizar_hamiltoniano
    \/ analizar_ciclo_hamiltoniano
    \/ calcular_eficiencia
    \/ nuevo_circuito
    \/ crear_circuito_ejemplo
    \/ \E c \in {circuito_actual, None} : Llamar_es_hamiltoniano(c)
    \/ \E camino \in Caminos : Llamar_calcular_eficiencia_energetica(camino)

Spec == Init /\ [][Next]_vars

(***************************************************************************)
(* The same application after "Nuevo Circuito", with circuits of up to     *)
(* four components A..D built from scratch.  The search reads neither the  *)
(* weights nor the orientation in which a connection was typed, so every   *)
(* connection is typed with weight 1 and its ends in alphabetical order.   *)
(***************************************************************************)
InitBusqueda ==
    /\ circuito_actual = CircuitoElectronico("Nuevo Circuito")
    /\ analizador = "None"
    /\ resultado = [SinResultado EXCEPT !.op = "nuevo_circuito"]

IdsBusqueda == <<"A", "B", "C", "D">>
ParesBusqueda ==
    {<<IdsBusqueda[i], IdsBusqueda[j]>> : i \in 1..Len(IdsBusqueda), j \in 1..Len(IdsBusqueda)}
        \ UNION {{<<IdsBusqueda[i], IdsBusqueda[j]>> : j \in 1..(i - 1)} :
                     i \in 1..Len(IdsBusqueda)}

NextBusqueda ==
    \/ \E t \in Rango(IdsBusqueda) : AgregarComponente(t, "Resistor")
    \/ \E par \in ParesBusqueda :
           /\ AgregarConexion(par[1], par[2], Numeral(1))
           /\ Cardinality(DOMAIN circuito_actual'.conexiones) <= MaxConexiones
    \/ analizar_hamiltoniano
    \/ analizar_ciclo_hamiltoniano
    \/ calcular_eficiencia
    \/ nuevo_circuito
    \/ \E c \in {circuito_actual, None} : Llamar_es_hamiltoniano(c)

SpecBusqueda == InitBusqueda /\ [][NextBusqueda]_vars

(***************************************************************************)
(* Vocabulary of the claims.                                               *)
(***************************************************************************)
\* a connection between a and b is stored, typed in either orientation
HayConexion(c, a, b) ==
    <<a, b>> \in DOMAIN c.conexiones \/ <<b, a>> \in DOMAIN c.conexiones

\* the sequences that hold every element of S exactly once
Permutaciones(S) ==
    {p \in [1..Cardinality(S) -> S] :
        \A i, j \in 1..Cardinality(S) : i # j => p[i] # p[j]}

\* p visits every component of c once and moves along connections only
EsCaminoHamiltoniano(c, p) ==
    /\ Len(p) = Cardinality(DOMAIN c.componentes)
    /\ Rango(p) = DOMAIN c.componentes
    /\ \A i, j \in 1..Len(p) : i # j => p[i] # p[j]
    /\ \A i \in 1..(Len(p) - 1) : HayConexion(c, p[i], p[i + 1])

CaminosHamiltonianos(c) ==
    {p \in Permutaciones(DOMAIN c.componentes) : EsCaminoHamiltoniano(c, p)}

\* position of x in the list s
Posicion(s, x) == CHOOSE i \in 1..Len(s) : s[i] = x

\* first index at which the lists p and q (same length, different) differ
PrimeraDiferencia(p, q) ==
    CHOOSE j \in 1..Len(p) : p[j] # q[j] /\ \A k \in 1..(j - 1) : p[k] = q[k]

\* p is tried before q by a depth-first search that takes the start nodes in
\* insertion order and the neighbours of a node in the order they were connected
AntesEnProfundidad(c, p, q) ==
    LET j == PrimeraDiferencia(p, q)
    IN  IF j = 1
        THEN Posicion(c.grafo.nodos, p[1]) < Posicion(c.grafo.nodos, q[1])
        ELSE Posicion(neighbors(c.grafo, p[j - 1]), p[j])
                 < Posicion(neighbors(c.grafo, p[j - 1]), q[j])

\* the last handler was "Encontrar Camino Hamiltoniano" and it ran the search
BusquedaHecha ==
    /\ resultado.op = "analizar_hamiltoniano"
    /\ resultado.mensaje # MsgAlMenosDos

(***************************************************************************)
(* C1 .. C4: the search.  Checked under SpecBusqueda.                      *)
(***************************************************************************)
\* C1: on a circuit of at least 2 components, a sequence returned by the path
\* search holds every component exactly once (as many elements as components,
\* none repeated) and each consecutive pair of it is a stored connection.
C1_CaminoDevueltoEsHamiltoniano ==
    (BusquedaHecha /\ resultado.camino.tipo = "list")
        => /\ Len(circuito_actual.grafo.nodos) >= 2
           /\ EsCaminoHamiltoniano(circuito_actual, resultado.camino.valor)

\* the search returned a path through all of A, B, C, D
C1_Testigo ==
    /\ BusquedaHecha
    /\ resultado.camino.tipo = "list"
    /\ Len(resultado.camino.valor) = 4

\* C2: on a circuit of at least 2 components the path search returns None if
\* and only if the circuit has no Hamiltonian path.
C2_NoneSiiNoHayCamino ==
    BusquedaHecha
        => /\ resultado.camino.tipo \in {"list", "None"}
           /\ (resultado.camino = None) <=> (CaminosHamiltonianos(circuito_actual) = {})

\* a star: four components, one connected to the other three and nothing else
EsEstrella(c) ==
    /\ Len(c.grafo.nodos) = 4
    /\ \E centro \in DOMAIN c.componentes :
           \A a, b \in DOMAIN c.componentes :
               a # b => (HayConexion(c, a, b) <=> (a = centro \/ b = centro))

\* the search ran on a star and returned None
C2_Testigo ==
    /\ BusquedaHecha
    /\ EsEstrella(circuito_actual)
    /\ resultado.camino = None

\* the ring A-B, B-C, C-D, D-A over components added as A, B, C, D, its
\* connections added in that order
EsAnilloABCD(c) ==
    /\ c.grafo.nodos = <<"A", "B", "C", "D">>
    /\ c.grafo.adj["A"] = <<"B", "D">>
    /\ c.grafo.adj["B"] = <<"A", "C">>
    /\ c.grafo.adj["C"] = <<"B", "D">>
    /\ c.grafo.adj["D"] = <<"C", "A">>

\* C3: the path returned is the first Hamiltonian path in depth-first order
\* (start nodes in insertion order, neighbours in the order their connections
\* were added): it comes before every other Hamiltonian path of the circuit,
\* so it is determined by the circuit; for the ring A-B, B-C, C-D, D-A it is
\* A, B, C, D.
C3_PrimerCaminoEnProfundidad ==
    (BusquedaHecha /\ resultado.camino.tipo = "list")
        => /\ \A q \in CaminosHamiltonianos(circuito_actual) :
                  q # resultado.camino.valor
                      => AntesEnProfundidad(circuito_actual, resultado.camino.valor, q)
           /\ EsAnilloABCD(circuito_actual)
                  => resultado.camino.valor = <<"A", "B", "C", "D">>

\* the search ran on the ring and returned A, B, C, D, one of several
\* Hamiltonian paths of the ring
C3_Testigo ==
    /\ BusquedaHecha
    /\ EsAnilloABCD(circuito_actual)
    /\ resultado.camino = Lista(<<"A", "B", "C", "D">>)
    /\ Cardinality(CaminosHamiltonianos(circuito_actual)) > 1

\* the circuit has a Hamiltonian cycle
TieneCicloHamiltoniano(c) ==
    \E p \in CaminosHamiltonianos(c) : Len(p) >= 3 /\ HayConexion(c, p[Len(p)], p[1])

DuplicateComponentError == MsgYaExiste
UnknownComponentError == MsgDebenExistir
InvalidConnectionError == MsgConsigoMismo

\* C5: the model holds at most one weight per unordered pair of components;
\* after addConnection(a, b, w) succeeds, the weight looked up for (a, b)
\* equals the one looked up for (b, a) and equals w, whichever way round the
\* pair was typed before.
C5_UnPesoPorPar ==
    /\ \A k \in DOMAIN circuito_actual.conexiones :
           <<k[2], k[1]>> \notin DOMAIN circuito_actual.conexiones
    /\ \A t1 \in TextosId, t2 \in TextosId, tr \in TextosResistencia :
           LET e == App_agregar_conexion(circuito_actual, t1, t2, tr)
           IN  e.mensaje = MsgConexionAgregada
                   => /\ resistencia_de(e.circuito, strip(t1), strip(t2)) = float(tr).num
                      /\ resistencia_de(e.circuito, strip(t2), strip(t1)) = float(tr).num

\* every stored connection joins two different components of the circuit,
\* and the graph holds exactly the components
ConexionesEntreComponentes ==
    /\ Rango(circuito_actual.grafo.nodos) = DOMAIN circuito_actual.componentes
    /\ DOMAIN circuito_actual.grafo.adj = DOMAIN circuito_actual.componentes
    /\ \A k \in DOMAIN circuito_actual.conexiones :
           /\ k[1] # k[2]
           /\ k[1] \in DOMAIN circuito_actual.componentes
           /\ k[2] \in DOMAIN circuito_actual.componentes
    /\ \A a \in DOMAIN circuito_actual.grafo.adj :
           \A b \in Rango(circuito_actual.grafo.adj[a]) :
               a # b /\ b \in DOMAIN circuito_actual.componentes

\* C6: addConnection(idA, idB, weight), for ids and a weight that were typed in,
\* fails with UnknownComponentError when idA or idB is not a component and with
\* InvalidConnectionError when idA = idB (both being components), and a call
\* that fails leaves the circuit as it was; so every connection joins two
\* different components of the circuit.
C6_ConexionRechazada ==
    /\ ConexionesEntreComponentes
    /\ \A t1 \in TextosId, t2 \in TextosId, tr \in TextosResistencia :
           LET e == App_agregar_conexion(circuito_actual, t1, t2, tr)
               idA == strip(t1)
               idB == strip(t2)
               componentes == DOMAIN circuito_actual.componentes
           IN  /\ (idA # "" /\ idB # "" /\ tr.numeral)
                      => /\ (idA \notin componentes \/ idB \notin componentes)
                                => e.mensaje = UnknownComponentError
                         /\ (idA \in componentes /\ idB \in componentes /\ idA = idB)
                                => e.mensaje = InvalidConnectionError
               /\ e.mensaje # MsgConexionAgregada => e.circuito = circuito_actual

\* a connection of a component to itself was just rejected
C6_Testigo ==
    /\ resultado.op = "agregar_conexion"
    /\ resultado.mensaje = InvalidConnectionError
    /\ circuito_actual.conexiones # <<>>

\* C7: addComponent(id, type), for an id and a type that were typed in, fails
\* with DuplicateComponentError when id is already a component and then leaves
\* the circuit (types, connections, insertion order) as it was; when id is new
\* it adds exactly that component, last in the insertion order and with no
\* connection.
C7_ComponenteDuplicado ==
    \A t \in TextosId, tipo \in Tipos :
        LET e == App_agregar_componente(circuito_actual, t, tipo)
            id == strip(t)
            c == circuito_actual
            d == e.circuito
        IN  (id # "" /\ tipo # "")
               => IF id \in DOMAIN c.componentes
                  THEN /\ e.mensaje = DuplicateComponentError
                       /\ d = c
                  ELSE /\ e.mensaje = MsgComponenteAgregado
                       /\ d.grafo.nodos = Append(c.grafo.nodos, id)
                       /\ DOMAIN d.componentes = DOMAIN c.componentes \cup {id}
                       /\ d.componentes[id] = tipo
                       /\ \A x \in DOMAIN c.componentes :
                              /\ d.componentes[x] = c.componentes[x]
                              /\ d.grafo.adj[x] = c.grafo.adj[x]
                       /\ d.grafo.adj[id] = <<>>
                       /\ d.conexiones = c.conexiones
                       /\ \A k \in DOMAIN d.conexiones : id \notin {k[1], k[2]}

\* a component whose id exists, and that has connections, was just rejected
C7_Testigo ==
    /\ resultado.op = "agregar_componente"
    /\ resultado.mensaje = DuplicateComponentError
    /\ circuito_actual.componentes["R1"] = "Resistor"
    /\ circuito_actual.grafo.adj["R1"] # <<>>

\* C8: isHamiltonian raises nothing: it is TRUE when the path search returns a
\* result (a list), FALSE when the search returns None and FALSE when the
\* search raises.
C8_EsHamiltonianoNoPropaga ==
    resultado.op = "es_hamiltoniano"
        => /\ resultado.es \in BOOLEAN
           /\ resultado.camino.tipo \in {"list", "None", "raise"}
           /\ resultado.es <=> (resultado.camino.tipo = "list")

\* es_hamiltoniano answered FALSE for a search that raised
C8_Testigo ==
    /\ resultado.op = "es_hamiltoniano"
    /\ resultado.camino.tipo = "raise"
    /\ resultado.es = FALSE

\* the weights stored for the pair {a, b}, either way round; 1 when there is none
PesosDelPar(c, a, b) ==
    LET claves == {<<a, b>>, <<b, a>>} \cap DOMAIN c.conexiones
    IN  IF claves = {} THEN {1} ELSE {c.conexiones[k] : k \in claves}

RECURSIVE PesosTotales(_, _, _)
\* the sums of one such weight per consecutive pair of p, from index i on
PesosTotales(c, p, i) ==
    IF i >= Len(p) THEN {0}
    ELSE {w + t : w \in PesosDelPar(c, p[i], p[i + 1]), t \in PesosTotales(c, p, i + 1)}

\* an efficiency was computed by the last operation, for the path resultado.camino
EficienciaCalculada == resultado.eficiencia # SinNumero

\* C9: computeEfficiency(path) is 0, without error, for a path of fewer than 2
\* elements; for a longer path it is 1 / (1 + totalWeight), totalWeight being
\* the sum over the consecutive pairs of a weight stored for the pair in either
\* orientation, or of 1 for a pair without a stored connection (the division
\* is the float division, which raises for totalWeight = -1).
C9_EficienciaEsInversaDelPeso ==
    EficienciaCalculada
        => LET p == resultado.camino.valor
           IN  IF Len(p) < 2
               THEN resultado.eficiencia = Numero(0, 1)
               ELSE \E t \in PesosTotales(circuito_actual, p, 1) :
                       resultado.eficiencia = Dividir(1, 1 + t)

\* the evaluator was called on R1, VCC, X in the example circuit: the pair
\* R1, VCC is stored as (VCC, R1) with weight 10, the pair VCC, X is not stored
C9_Testigo ==
    /\ resultado.op = "calcular_eficiencia_energetica"
    /\ resultado.camino.valor = <<"R1", "VCC", "X">>
    /\ <<"VCC", "R1">> \in DOMAIN circuito_actual.conexiones
    /\ ~HayConexion(circuito_actual, "VCC", "X")
    /\ resultado.eficiencia = Numero(1, 12)

\* q1 < q2 for floats
Menor(q1, q2) ==
    LET s1 == IF q1.den > 0 THEN 1 ELSE 0 - 1
        s2 == IF q2.den > 0 THEN 1 ELSE 0 - 1
    IN  (q1.num * s1) * (q2.den * s2) < (q2.num * s2) * (q1.den * s1)

CaminosLargos == {p \in Caminos : Len(p) >= 2}

\* C10: for every path of 2 or more elements the efficiency is computed
\* without a division by zero, lies in (0, 1], is 1 only for total weight 0,
\* and is strictly decreasing in the total weight.
C10_EficienciaEnRango ==
    /\ \A p \in CaminosLargos :
           LET e == calcular_eficiencia_energetica(circuito_actual, p)
           IN  /\ e.tipo = "float"
               /\ Menor(Numero(0, 1), e)
               /\ ~Menor(Numero(1, 1), e)
               /\ e.num = e.den => resistencia_total(circuito_actual, p, 1) = 0
    /\ \A p \in CaminosLargos, q \in CaminosLargos :
           resistencia_total(circuito_actual, p, 1) < resistencia_total(circuito_actual, q, 1)
               => Menor(calcular_eficiencia_energetica(circuito_actual, q),
                        calcular_eficiencia_energetica(circuito_actual, p))
    /\ (EficienciaCalculada /\ Len(resultado.camino.valor) >= 2)
           => /\ resultado.eficiencia.tipo = "float"
              /\ Menor(Numero(0, 1), resultado.eficiencia)
              /\ ~Menor(Numero(1, 1), resultado.eficiencia)

(***************************************************************************)
(* The worked example: the circuit "Cargar Ejemplo" builds.                *)
(***************************************************************************)
EsElEjemplo == circuito_actual = circuito_ejemplo

\* the ring taken from the first inserted component along its first connection
CaminoEjemplo == <<"R1", "VCC", "R2", "T1", "L1", "C1">>

\* C11 as stated: on the example circuit findHamiltonianPath returns a
\* 6-element sequence starting at VCC, findHamiltonianCycle returns that path
\* followed by VCC, the total weight over the full cycle is 36, the efficiency
\* is 1/37 and the tier is low.
C11_EjemploDesdeVCC ==
    EsElEjemplo =>
        /\ resultado.op = "analizar_hamiltoniano"
               => /\ resultado.camino.tipo = "list"
                  /\ Len(resultado.camino.valor) = 6
                  /\ resultado.camino.valor[1] = "VCC"
        /\ resultado.op = "analizar_ciclo_hamiltoniano"
               => /\ resultado.camino.tipo = "list"
                  /\ resultado.camino.valor =
                         Append(encontrar_camino_hamiltoniano(circuito_actual).valor, "VCC")
                  /\ resistencia_total(circuito_actual, resultado.camino.valor, 1) = 36
                  /\ resultado.eficiencia = Numero(1, 37)
                  /\ nivel_de(resultado.eficiencia) = "BAJA"

\* C11, amended: on the example circuit, whose first inserted component is
\* R1, findHamiltonianPath returns the 6-element sequence R1, VCC, R2, T1, L1,
\* C1, findHamiltonianCycle returns that path followed by R1, the total weight
\* over the full cycle is 36, the efficiency of the cycle is 1/37 and the tier
\* is low; the efficiency report, which evaluates the path, shows total 31,
\* efficiency 1/32 and the tier low.
C11_EjemploDesdeR1 ==
    EsElEjemplo =>
        /\ resultado.op = "analizar_hamiltoniano"
               => /\ resultado.camino = Lista(CaminoEjemplo)
                  /\ Len(resultado.camino.valor) = 6
                  /\ resultado.camino.valor[1] = "R1"
        /\ resultado.op = "analizar_ciclo_hamiltoniano"
               => /\ resultado.camino = Lista(Append(CaminoEjemplo, "R1"))
                  /\ resistencia_total(circuito_actual, resultado.camino.valor, 1) = 36
                  /\ resultado.eficiencia = Numero(1, 37)
                  /\ nivel_de(resultado.eficiencia) = "BAJA"
        /\ resultado.op = "calcular_eficiencia"
               => /\ resultado.camino = Lista(CaminoEjemplo)
                  /\ resultado.total = 31
                  /\ resultado.eficiencia = Numero(1, 32)
                  /\ resultado.nivel = "BAJA"

\* the cycle of the example circuit was just found, with its efficiency
C11_Testigo ==
    /\ EsElEjemplo
    /\ resultado.op = "analizar_ciclo_hamiltoniano"
    /\ resultado.camino = Lista(Append(CaminoEjemplo, "R1"))
    /\ resultado.eficiencia = Numero(1, 37)

(***************************************************************************)
(* Weights of the pairs of a discovered path.                              *)
(***************************************************************************)
ParesConsecutivos(camino) ==
    {<<camino[i], camino[i + 1]>> : i \in 1..(Len(camino) - 1)}

\* a weight is stored for the pair in one orientation or the other, so the
\* evaluator does not reach its default
TienePeso(c, par) ==
    \/ par \in DOMAIN c.conexiones
    \/ <<par[2], par[1]>> \in DOMAIN c.conexiones

\* the last operation was a search of the current circuit that returned a
\* path or a cycle
CaminoDescubierto ==
    /\ resultado.op \in {"analizar_hamiltoniano", "analizar_ciclo_hamiltoniano",
                          "calcular_eficiencia", "es_hamiltoniano"}
    /\ resultado.camino.tipo = "list"

\* C12: in every state reached by addComponent/addConnection calls, each
\* consecutive pair of the path or the cycle the search returns has a weight
\* stored in at least one orientation, so computeEfficiency never takes its
\* 1.0 default for a discovered path or cycle.
C12_ParesDescubiertosConPeso ==
    /\ \A camino \in {encontrar_camino_hamiltoniano(circuito_actual),
                       encontrar_ciclo_hamiltoniano(circuito_actual)} :
           camino.tipo = "list"
               => \A par \in ParesConsecutivos(camino.valor) :
                      TienePeso(circuito_actual, par)
    /\ CaminoDescubierto
           => \A par \in ParesConsecutivos(resultado.camino.valor) :
                  TienePeso(circuito_actual, par)

\* a cycle over four components was just found and evaluated, and one of its
\* pairs is stored in the opposite orientation only
C12_Testigo ==
    /\ resultado.op = "analizar_ciclo_hamiltoniano"
    /\ resultado.camino.tipo = "list"
    /\ Len(resultado.camino.valor) = 5
    /\ resultado.eficiencia.tipo = "float"
    /\ \E par \in ParesConsecutivos(resultado.camino.valor) :
           par \notin DOMAIN circuito_actual.conexiones

====
